---- MODULE Spec2Model ----
(***************************************************************************)
(* Model of the crewai-intelligent-builder orchestration layer:            *)
(*   - TaskDesignerAgent.generate_custom_tasks / _parse_text_tasks         *)
(*     (the task extractor), TaskDesignerAgent.create_project_guide        *)
(*   - IntelligentCrewRunner.run_intelligent_crew and                      *)
(*     combine_intelligent_results (the sequential execution loop)         *)
(*                                                                         *)
(* Python values are records [t, v]: t is the Python type ("str", "none",  *)
(* "int") or "absent" for a key a dict does not hold; v is the text as a   *)
(* sequence of characters / tokens.                                        *)
(***************************************************************************)
EXTENDS Integers, Sequences, FiniteSets, TLC

VARIABLES
    \* ---- run_intelligent_crew ----
    pc,             \* position in run_intelligent_crew
    custom_tasks,   \* analysis_result['custom_tasks']
    project_guide,  \* analysis_result['project_guide']
    i,              \* loop index of `for i, task_config in enumerate(custom_tasks, 1)`
    estimated_tokens,
    start_time,
    error_msg,      \* str(e) inside the except block
    results,        \* the insertion-ordered results dict, as a sequence of entries
    now,            \* wall clock (time.time()), seconds
    submitted,      \* log of crew_task.execute_sync() calls
    finished,       \* log of execute_sync outcomes (returned / raised)
    sleeps,         \* log of time.sleep() calls
    \* ---- generate_custom_tasks ----
    x_pc,           \* position in generate_custom_tasks
    raw_text,       \* result.raw of the task-generation call
    json_match,     \* re.search(...) result
    tiers,          \* log of the parsing tiers entered, in order
    x_result,       \* the value returned to the caller
    \* ---- _parse_text_tasks, and repeated calls of the extractor ----
    p_tasks,        \* the local `tasks`
    p_current,      \* the local `current_task`
    p_lines,        \* the lines the for loop has still to take
    ref             \* an earlier call the caller remembers: its text and its result

vars == <<pc, custom_tasks, project_guide, i, estimated_tokens, start_time, error_msg,
          results, now, submitted, finished, sleeps,
          x_pc, raw_text, json_match, tiers, x_result,
          p_tasks, p_current, p_lines, ref>>

runner_vars == <<pc, custom_tasks, project_guide, i, estimated_tokens, start_time,
                 error_msg, results, now, submitted, finished, sleeps>>

extract_vars == <<x_pc, raw_text, json_match, tiers, x_result>>

call_vars == <<p_tasks, p_current, p_lines, ref>>

-----------------------------------------------------------------------------
(* Bounds *)

MaxTasks == 3

MaxLines == 3

MaxCallLines == 2

-----------------------------------------------------------------------------
(* Python values *)

Str(s) == [t |-> "str", v |-> s]

Absent == [t |-> "absent", v |-> <<>>]

None == [t |-> "none", v |-> <<>>]

IntVal(digits) == [t |-> "int", v |-> digits]

\* dict.get(key, default)
PyGet(d, k, default) == IF d[k].t = "absent" THEN default ELSE d[k]

\* str(x) / f-string formatting of a value
PyStr(x) == IF x.t = "none" THEN <<"None">> ELSE x.v

\* whether len(x) is defined (str); len(None) and len(5) raise TypeError
HasLen(x) == x.t = "str"

\* whether x.replace(...) is defined (str); otherwise AttributeError
HasReplace(x) == x.t = "str"

TaskFields == {"name", "description", "expected_output", "success_criteria",
               "dependencies", "estimated_complexity"}

\* a JSON object / Python dict holding a task; kind "dict"
Dict(name, description, expected_output, success_criteria, dependencies, complexity) ==
    [kind |-> "dict", name |-> name, description |-> description,
     expected_output |-> expected_output, success_criteria |-> success_criteria,
     dependencies |-> dependencies, estimated_complexity |-> complexity]

\* a list element that is not a dict (a JSON number): it has no .get
NonDict ==
    [kind |-> "int", name |-> Absent, description |-> Absent,
     expected_output |-> Absent, success_criteria |-> Absent,
     dependencies |-> Absent, estimated_complexity |-> Absent]

\* the empty dict {} (current_task = {})
EmptyDict == Dict(Absent, Absent, Absent, Absent, Absent, Absent)

\* truthiness of a dict: non-empty
Truthy(d) == \E k \in TaskFields : d[k].t # "absent"

-----------------------------------------------------------------------------
(* Characters *)

Lower(c) == CASE c = "A" -> "a" [] c = "B" -> "b" [] c = "T" -> "t" [] OTHER -> c

Upper(c) == CASE c = "a" -> "A" [] c = "b" -> "B" [] c = "t" -> "T" [] OTHER -> c

IsAlpha(c) == c \in {"a", "b", "t", "s", "k", "A", "B", "T"}

\* s.replace(old, new) on single characters
Replace(s, old, new) == [k \in DOMAIN s |-> IF s[k] = old THEN new ELSE s[k]]

\* s.lower()
LowerStr(s) == [k \in DOMAIN s |-> Lower(s[k])]

\* s.title(): a letter is upper-cased after a non-letter, lower-cased after a letter
Title(s) ==
    [k \in DOMAIN s |->
        IF k = 1 \/ ~IsAlpha(s[k - 1]) THEN Upper(s[k]) ELSE Lower(s[k])]

DigitChars == <<"0", "1", "2", "3", "4", "5", "6", "7", "8", "9">>

RECURSIVE DecStr(_)
\* decimal formatting of a natural number, as f"{i}" does
DecStr(n) == IF n < 10 THEN <<DigitChars[n + 1]>>
             ELSE DecStr(n \div 10) \o <<DigitChars[(n % 10) + 1]>>

-----------------------------------------------------------------------------
(* Task records the designer can hand to the guide and to the runner *)

\* a task object with every field populated
TaskFull ==
    Dict(Str(<<"A", " ", "b">>), Str(<<"d", "d">>), Str(<<"o">>), Str(<<"s">>),
         Str(<<"T", "1">>), Str(<<"Simple">>))

\* only name and description populated
TaskMin == Dict(Str(<<"b">>), Str(<<"d">>), Absent, Absent, Absent, Absent)

\* only a name (a "TASK NAME:" line with no field lines after it)
TaskNameOnly == Dict(Str(<<"a">>), Absent, Absent, Absent, Absent, Absent)

\* no name (field lines with no "TASK NAME:" line before them)
TaskDescOnly == Dict(Absent, Str(<<"d">>), Absent, Absent, Absent, Absent)

\* JSON {"name": 5, "description": "d"}
TaskIntName == Dict(IntVal(<<"5">>), Str(<<"d">>), Absent, Absent, Absent, Absent)

\* JSON {"name": "b", "description": null}
TaskNullDesc == Dict(Str(<<"b">>), None, Absent, Absent, Absent, Absent)

TaskUniverse ==
    {TaskFull, TaskMin, TaskNameOnly, TaskDescOnly, TaskIntName, TaskNullDesc, NonDict}

RECURSIVE SeqsUpTo(_, _)
\* all sequences over S of length at most n
SeqsUpTo(S, n) ==
    IF n = 0 THEN {<<>>}
    ELSE LET shorter == SeqsUpTo(S, n - 1)
         IN  shorter \cup {Append(s, e) : s \in {q \in shorter : Len(q) = n - 1}, e \in S}

RECURSIVE Concat(_)
\* concatenation of a sequence of sequences
Concat(ss) == IF ss = <<>> THEN <<>> ELSE Head(ss) \o Concat(Tail(ss))

\* the texts the collaborators supplied to the run
ProjectIdea == <<"idea">>

TargetAudience == <<"audience">>

Timeline == <<"timeline">>

AnalysisText == <<"analysis">>

-----------------------------------------------------------------------------
(* TaskDesignerAgent.create_project_guide *)

GuideHeader(n) ==
    << <<"# PROJECT DEVELOPMENT GUIDE">>,
       <<"Generated:", "Unknown">>,
       <<"## PROJECT OVERVIEW">>,
       <<"**Idea:**">> \o ProjectIdea,
       <<"**Target Audience:**">> \o TargetAudience,
       <<"**Timeline:**">> \o Timeline,
       <<"## ANALYSIS RESULTS">>,
       AnalysisText,
       <<"## DEVELOPMENT TASKS">>,
       <<"Total Tasks:">> \o DecStr(n) >>

GuideSection_SwappedDefaults(task, n) ==
    << <<"### Task">> \o DecStr(n) \o <<":">>
            \o PyStr(PyGet(task, "name", Str(<<"Unnamed Task">>))),
       <<"**Description:**">>
            \o PyStr(PyGet(task, "description", Str(<<"No description provided">>))),
       <<"**Expected Output:**">>
            \o PyStr(PyGet(task, "expected_output", Str(<<"No criteria specified">>))),
       <<"**Success Criteria:**">>
            \o PyStr(PyGet(task, "success_criteria", Str(<<"No output specified">>))),
       <<"**Dependencies:**">>
            \o PyStr(PyGet(task, "dependencies", Str(<<"None specified">>))),
       <<"**Complexity:**">>
            \o PyStr(PyGet(task, "estimated_complexity", Str(<<"Unknown">>))),
       <<"---">> >>

\* the section of one task (the f-string of the loop body)
GuideSection(task, n) ==
    << <<"### Task">> \o DecStr(n) \o <<":">>
            \o PyStr(PyGet(task, "name", Str(<<"Unnamed Task">>))),
       <<"**Description:**">>
            \o PyStr(PyGet(task, "description", Str(<<"No description provided">>))),
       <<"**Expected Output:**">>
            \o PyStr(PyGet(task, "expected_output", Str(<<"No output specified">>))),
       <<"**Success Criteria:**">>
            \o PyStr(PyGet(task, "success_criteria", Str(<<"No criteria specified">>))),
       <<"**Dependencies:**">>
            \o PyStr(PyGet(task, "dependencies", Str(<<"None specified">>))),
       <<"**Complexity:**">>
            \o PyStr(PyGet(task, "estimated_complexity", Str(<<"Unknown">>))),
       <<"---">> >>

GuideFooter ==
    << <<"## IMPLEMENTATION NOTES">>,
       <<"1. **Follow the task order** - dependencies matter">>,
       <<"2. **Test each task** before moving to the next">>,
       <<"3. **Focus on working code** over perfect code">>,
       <<"4. **Validate success criteria** for each task">>,
       <<"5. **Document any deviations** from the plan">>,
       <<"## SUCCESS METRICS">>,
       <<"- [ ] All tasks completed successfully">>,
       <<"- [ ] Final deliverable works as intended">>,
       <<"- [ ] Success criteria met for each task">>,
       <<"- [ ] Project meets original requirements">> >>

\* task.get(...) raises AttributeError on a list element that is not a dict
GuideRaises(tasks) == \E n \in DOMAIN tasks : tasks[n].kind # "dict"

\* the guide, as a sequence of lines (defined when GuideRaises is false)
CreateProjectGuide(tasks) ==
    GuideHeader(Len(tasks))
        \o Concat([n \in DOMAIN tasks |-> GuideSection(tasks[n], n)])
        \o GuideFooter

NoGuide == <<>>

-----------------------------------------------------------------------------
(* IntelligentCrewRunner: constants, records, keys *)

delay_between_chunks == 65

extra_delay == 120

\* messages the execution collaborator can raise with (str(e))
RateLimitMsg == <<"litellm", ".", "RateLimitError", ":", "quota">>

TimeoutMsg == <<"Timeout">>

CollaboratorErrors == {RateLimitMsg, TimeoutMsg}

\* str(e) of the AttributeError raised by name.replace on a name that is not a str
AttributeErrorMsg == <<"AttributeError", ":", "replace">>

\* the payload a successful execute_sync returns (result.raw)
ResultPayload == Str(<<"out">>)

IsRateLimit_Prefix(msg) == msg # <<>> /\ msg[1] = "RateLimitError"

\* "RateLimitError" in error_msg
IsRateLimit(msg) == \E k \in DOMAIN msg : msg[k] = "RateLimitError"

\* an entry's value when the entry is not an ExecutionRecord
NoRecord ==
    [keys |-> {}, task_config |-> EmptyDict, result |-> Absent, error |-> Absent,
     execution_time |-> 0, estimated_tokens |-> 0, timestamp |-> 0]

\* the dict stored on success
SuccessRecord(task, result, secs, tokens, ts) ==
    [keys |-> {"task_config", "result", "execution_time", "estimated_tokens", "timestamp"},
     task_config |-> task, result |-> result, error |-> Absent,
     execution_time |-> secs, estimated_tokens |-> tokens, timestamp |-> ts]

\* the dict stored in the except block
FailureRecord(task, msg, ts) ==
    [keys |-> {"task_config", "error", "timestamp"},
     task_config |-> task, result |-> Absent, error |-> Str(msg),
     execution_time |-> 0, estimated_tokens |-> 0, timestamp |-> ts]

TaskPrefix(n) == <<"t", "a", "s", "k", "_">> \o DecStr(n) \o <<"_">>

\* f"task_{i}_{name.replace(' ', '_').lower()}"
SuccessKey(n, name) == TaskPrefix(n) \o LowerStr(Replace(name, " ", "_"))

FailedKey_NoIndex(n) == <<"t", "a", "s", "k", "_", "f", "a", "i", "l", "e", "d">>

\* f"task_{i}_failed"
FailedKey(n) == TaskPrefix(n) \o <<"f", "a", "i", "l", "e", "d">>

CombinedKey == <<"combined">>

AnalysisKey == <<"analysis">>

Entry(key, rec, text) == [key |-> key, rec |-> rec, text |-> text]

\* d[key] = value on an insertion-ordered dict
DictSet(d, e) ==
    IF \E n \in DOMAIN d : d[n].key = e.key
    THEN [n \in DOMAIN d |-> IF d[n].key = e.key THEN e ELSE d[n]]
    ELSE Append(d, e)

HasKey(d, key) == \E n \in DOMAIN d : d[n].key = key

TaskAt_Reversed(tasks, n) == tasks[Len(tasks) + 1 - n]

\* the task_config enumerate(custom_tasks, 1) yields at index n
TaskAt(tasks, n) == tasks[n]

\* the prompt of the crewai Task built for a task_config
Prompt(task) ==
    [name |-> PyStr(PyGet(task, "name", Str(<<"Development Task">>))),
     description |->
        PyStr(PyGet(task, "description", Str(<<"Complete this development task">>))),
     expected_output |->
        PyStr(PyGet(task, "expected_output", Str(<<"Working implementation">>))),
     success_criteria |->
        PyStr(PyGet(task, "success_criteria", Str(<<"Code functions without errors">>))),
     project |-> ProjectIdea]

SuccessfulTasks_All(d) == {n \in DOMAIN d : TRUE}

\* [k for k, v in results.items() if 'error' not in v] (as positions in the dict)
SuccessfulTasks(d) == {n \in DOMAIN d : "error" \notin d[n].rec.keys}

\* [k for k, v in results.items() if 'error' in v]
FailedTasks(d) == {n \in DOMAIN d : "error" \in d[n].rec.keys}

-----------------------------------------------------------------------------
(* IntelligentCrewRunner.combine_intelligent_results *)

\* the lines appended for one entry of task_results
CombinedEntry(e) ==
    IF e.key \in {CombinedKey, AnalysisKey} THEN <<>>
    ELSE << <<"###">> \o Title(Replace(e.key, "_", " ")) >>
         \o (IF "error" \in e.rec.keys
             THEN << <<"**Status:** Failed">>, <<"**Error:**">> \o PyStr(e.rec.error) >>
             ELSE << <<"**Status:** Success">>,
                     <<"**Execution Time:**">> \o DecStr(e.rec.execution_time),
                     PyStr(e.rec.result) >>)
         \o << <<>> >>

CombineIntelligentResults(task_results, guide, ts) ==
    << <<"# INTELLIGENT PROJECT DEVELOPMENT RESULTS">>,
       <<"Generated:">> \o DecStr(ts),
       <<>>,
       <<"## PROJECT ANALYSIS">>,
       AnalysisText,
       <<>>,
       <<"## TASK EXECUTION RESULTS">>,
       <<>> >>
    \o Concat([n \in DOMAIN task_results |-> CombinedEntry(task_results[n])])
    \o << <<"## IMPLEMENTATION GUIDE">> >>
    \o guide

AfterFailure_Retry(n) == n

\* the loop index after the except block: the block ends the iteration, no
\* retry re-enters it, and the for loop takes the next task
AfterFailure(n) == n + 1

-----------------------------------------------------------------------------
(* IntelligentCrewRunner.run_intelligent_crew *)

NoRef == [set |-> FALSE, text |-> <<>>, result |-> <<>>, others |-> FALSE]

CallsIdle ==
    /\ p_tasks = <<>>
    /\ p_current = EmptyDict
    /\ p_lines = <<>>
    /\ ref = NoRef

ExtractorIdle ==
    /\ x_pc = "idle"
    /\ raw_text = <<>>
    /\ json_match = <<>>
    /\ tiers = <<>>
    /\ x_result = <<>>

Init ==
    /\ pc = "design"
    /\ custom_tasks \in SeqsUpTo(TaskUniverse, MaxTasks)
    /\ project_guide = NoGuide
    /\ i = 1
    /\ estimated_tokens = 0
    /\ start_time = 0
    /\ error_msg = <<>>
    /\ results = <<>>
    /\ now = 0
    /\ submitted = <<>>
    /\ finished = <<>>
    /\ sleeps = <<>>
    /\ ExtractorIdle
    /\ CallsIdle

\* analyze_and_design_tasks after the extraction: the guide is rendered from the
\* task list before the run sees it; an exception of the rendering propagates
DesignTasks ==
    /\ pc = "design"
    /\ IF GuideRaises(custom_tasks)
       THEN /\ pc' = "aborted"
            /\ UNCHANGED project_guide
       ELSE /\ project_guide' = CreateProjectGuide(custom_tasks)
            /\ pc' = "loop"
    /\ UNCHANGED <<custom_tasks, i, estimated_tokens, start_time, error_msg, results,
                   now, submitted, finished, sleeps>>
    /\ UNCHANGED extract_vars
    /\ UNCHANGED call_vars

\* the for loop is exhausted
LoopExit ==
    /\ pc = "loop"
    /\ i > Len(custom_tasks)
    /\ pc' = "compile"
    /\ UNCHANGED <<custom_tasks, project_guide, i, estimated_tokens, start_time,
                   error_msg, results, now, submitted, finished, sleeps>>
    /\ UNCHANGED extract_vars
    /\ UNCHANGED call_vars

\* the statements of the loop body before the try: the token estimate;
\* len() of a description that is not a string raises outside the try
StartTask ==
    /\ pc = "loop"
    /\ i <= Len(custom_tasks)
    /\ LET task_config == TaskAt(custom_tasks, i)
           task_description == PyGet(task_config, "description", Str(<<>>))
       IN  IF HasLen(task_description)
           THEN /\ estimated_tokens' = Len(task_description.v) * 4
                /\ pc' = "submit"
           ELSE /\ pc' = "aborted"
                /\ UNCHANGED estimated_tokens
    /\ UNCHANGED <<custom_tasks, project_guide, i, start_time, error_msg, results,
                   now, submitted, finished, sleeps>>
    /\ UNCHANGED extract_vars
    /\ UNCHANGED call_vars

\* Task(...) is built and crew_task.execute_sync() is called
Submit ==
    /\ pc = "submit"
    /\ LET task_config == TaskAt(custom_tasks, i)
       IN  submitted' = Append(submitted,
                [idx |-> i, task |-> task_config, prompt |-> Prompt(task_config)])
    /\ start_time' = now
    /\ pc' = "executing"
    /\ UNCHANGED <<custom_tasks, project_guide, i, estimated_tokens, error_msg, results,
                   now, finished, sleeps>>
    /\ UNCHANGED extract_vars
    /\ UNCHANGED call_vars

\* execute_sync returns: the success record is stored under the key built from
\* the name; building the key raises when the name is not a string
ExecReturn ==
    /\ pc = "executing"
    /\ now' = now + 1
    /\ finished' = Append(finished, [idx |-> i, raised |-> FALSE])
    /\ LET task_config == TaskAt(custom_tasks, i)
           name == PyGet(task_config, "name", Str(<<"unnamed">>))
       IN  IF HasReplace(name)
           THEN /\ results' = DictSet(results,
                        Entry(SuccessKey(i, name.v),
                              SuccessRecord(task_config, ResultPayload,
                                            now' - start_time, estimated_tokens, now'),
                              <<>>))
                /\ IF i < Len(custom_tasks)
                   THEN pc' = "delay" /\ UNCHANGED i
                   ELSE pc' = "loop" /\ i' = i + 1
                /\ UNCHANGED error_msg
           ELSE /\ error_msg' = AttributeErrorMsg
                /\ pc' = "except"
                /\ UNCHANGED <<results, i>>
    /\ UNCHANGED <<custom_tasks, project_guide, estimated_tokens, start_time,
                   submitted, sleeps>>
    /\ UNCHANGED extract_vars
    /\ UNCHANGED call_vars

\* execute_sync raises
ExecRaise ==
    /\ pc = "executing"
    /\ \E msg \in CollaboratorErrors : error_msg' = msg
    /\ now' = now + 1
    /\ finished' = Append(finished, [idx |-> i, raised |-> TRUE])
    /\ pc' = "except"
    /\ UNCHANGED <<custom_tasks, project_guide, i, estimated_tokens, start_time,
                   results, submitted, sleeps>>
    /\ UNCHANGED extract_vars
    /\ UNCHANGED call_vars

\* the except block up to the rate-limit test
HandleExcept ==
    /\ pc = "except"
    /\ results' = DictSet(results,
            Entry(FailedKey(i), FailureRecord(TaskAt(custom_tasks, i), error_msg, now),
                  <<>>))
    /\ IF IsRateLimit(error_msg)
       THEN pc' = "cooldown" /\ UNCHANGED i
       ELSE pc' = "loop" /\ i' = AfterFailure(i)
    /\ UNCHANGED <<custom_tasks, project_guide, estimated_tokens, start_time, error_msg,
                   now, submitted, finished, sleeps>>
    /\ UNCHANGED extract_vars
    /\ UNCHANGED call_vars

\* time.sleep(self.delay_between_chunks)
Delay ==
    /\ pc = "delay"
    /\ sleeps' = Append(sleeps, [after |-> i, secs |-> delay_between_chunks])
    /\ now' = now + delay_between_chunks
    /\ i' = i + 1
    /\ pc' = "loop"
    /\ UNCHANGED <<custom_tasks, project_guide, estimated_tokens, start_time, error_msg,
                   results, submitted, finished>>
    /\ UNCHANGED extract_vars
    /\ UNCHANGED call_vars

\* time.sleep(extra_delay)
Cooldown ==
    /\ pc = "cooldown"
    /\ sleeps' = Append(sleeps, [after |-> i, secs |-> extra_delay])
    /\ now' = now + extra_delay
    /\ i' = AfterFailure(i)
    /\ pc' = "loop"
    /\ UNCHANGED <<custom_tasks, project_guide, estimated_tokens, start_time, error_msg,
                   results, submitted, finished>>
    /\ UNCHANGED extract_vars
    /\ UNCHANGED call_vars

\* result compilation: the combined report is added when a task succeeded
Compile ==
    /\ pc = "compile"
    /\ IF SuccessfulTasks(results) # {}
       THEN results' =
                DictSet(DictSet(results,
                                Entry(CombinedKey, NoRecord,
                                      CombineIntelligentResults(results, project_guide, now))),
                        Entry(AnalysisKey, NoRecord, project_guide))
       ELSE UNCHANGED results
    /\ pc' = "done"
    /\ UNCHANGED <<custom_tasks, project_guide, i, estimated_tokens, start_time,
                   error_msg, now, submitted, finished, sleeps>>
    /\ UNCHANGED extract_vars
    /\ UNCHANGED call_vars

Next ==
    \/ DesignTasks
    \/ LoopExit
    \/ StartTask
    \/ Submit
    \/ ExecReturn
    \/ ExecRaise
    \/ HandleExcept
    \/ Delay
    \/ Cooldown
    \/ Compile

Spec == Init /\ [][Next]_vars

-----------------------------------------------------------------------------
(* Properties of run_intelligent_crew *)

\* the ExecutionRecords of the results dict, in insertion order
TaskEntries(d) == SelectSeq(d, LAMBDA e : e.key \notin {CombinedKey, AnalysisKey})

IsPrefix(p, s) == Len(p) <= Len(s) /\ \A k \in DOMAIN p : s[k] = p[k]

\* C1: whenever the execution of some task raised, the run is not aborted (its
\* later tasks are still submitted and result compilation is reached): no run
\* ends by a propagated exception once an execution failure has been recorded.
C1_FailureNeverAbortsRun ==
    (\E n \in DOMAIN finished : finished[n].raised) => pc # "aborted"

\* C2: once the loop has processed the k tasks, results holds exactly k
\* ExecutionRecords, the n-th being the record of task n, and no step of the
\* run overwrites or modifies an entry that is already stored.
C2_OneRecordPerTask ==
    /\ [](pc \in {"compile", "done"} =>
            /\ Len(TaskEntries(results)) = Len(custom_tasks)
            /\ \A n \in DOMAIN custom_tasks :
                  /\ TaskEntries(results)[n].rec.task_config = custom_tasks[n]
                  /\ IsPrefix(TaskPrefix(n), TaskEntries(results)[n].key)
                  /\ ("error" \in TaskEntries(results)[n].rec.keys)
                        # ("result" \in TaskEntries(results)[n].rec.keys))
    /\ [][\A n \in DOMAIN results :
            n \in DOMAIN results' /\ results'[n] = results[n]]_vars

C2_Witness ==
    /\ pc = "done"
    /\ Len(custom_tasks) = 3
    /\ \E m, n \in DOMAIN results :
          /\ "error" \in results[m].rec.keys
          /\ "result" \in results[n].rec.keys
          /\ m < n

\* the number of extended cooldowns slept after task idx
CooldownsAfter(idx) ==
    Cardinality({n \in DOMAIN sleeps :
                    sleeps[n].after = idx /\ sleeps[n].secs = extra_delay})

\* C3: the extended 120s cooldown is slept exactly once for each task whose
\* failure message contains "RateLimitError" and never for a success or for a
\* failure without the marker (while the cooldown of the current task is still
\* pending it has not been slept yet).
C3_CooldownOncePerRateLimit ==
    /\ \A idx \in 1..Len(custom_tasks) :
          CooldownsAfter(idx) =
             IF /\ idx <= Len(TaskEntries(results))
                /\ "error" \in TaskEntries(results)[idx].rec.keys
                /\ \E k \in DOMAIN TaskEntries(results)[idx].rec.error.v :
                       TaskEntries(results)[idx].rec.error.v[k] = "RateLimitError"
                /\ ~(pc = "cooldown" /\ idx = i)
             THEN 1 ELSE 0
    /\ \A n \in DOMAIN sleeps : sleeps[n].after \in 1..Len(custom_tasks)

C3_Witness ==
    /\ pc = "done"
    /\ \E a, b, c \in DOMAIN results :
          /\ results[a].rec.error = Str(RateLimitMsg)
          /\ results[b].rec.error = Str(TimeoutMsg)
          /\ "result" \in results[c].rec.keys
    /\ \E n \in DOMAIN sleeps : sleeps[n].secs = extra_delay

\* C4: tasks are submitted in the order of custom_tasks, one at a time: the
\* n-th submission is task n of the list, and every earlier task has finished
\* (returned or raised) before the next is submitted, whatever the tasks'
\* dependencies say.
C4_SequentialInOrder ==
    /\ \A n \in DOMAIN submitted :
          submitted[n].idx = n /\ submitted[n].task = custom_tasks[n]
    /\ \A n \in DOMAIN finished : finished[n].idx = n
    /\ IF pc = "executing"
       THEN Len(finished) = Len(submitted) - 1
       ELSE Len(finished) = Len(submitted)

C4_Witness ==
    /\ Len(submitted) = 3
    /\ pc = "executing"
    /\ custom_tasks[1].dependencies.t = "str"
    /\ custom_tasks[1] # custom_tasks[3]
    /\ finished[1].raised
    /\ ~finished[2].raised

\* the number of execute_sync calls made for task idx
SubmissionsOf(idx) ==
    Cardinality({n \in DOMAIN submitted : submitted[n].idx = idx})

\* C11: no task is submitted twice: the submissions of a run have pairwise
\* distinct task indices, and a task whose execution raised (rate-limit
\* failures and their cooldown included) is recorded under its failure key
\* with the error and has been submitted exactly once, however far the run
\* has gone on since.
C11_NoResubmission ==
    /\ \A m, n \in DOMAIN submitted :
          submitted[m].idx = submitted[n].idx => m = n
    /\ \A n \in DOMAIN finished :
          (finished[n].raised /\ ~(pc = "except" /\ finished[n].idx = i)) =>
              /\ \E k \in DOMAIN results :
                    /\ results[k].key = FailedKey(finished[n].idx)
                    /\ "error" \in results[k].rec.keys
              /\ SubmissionsOf(finished[n].idx) = 1

C11_Witness ==
    /\ pc = "done"
    /\ Len(submitted) = 3
    /\ finished[1].raised
    /\ \E n \in DOMAIN sleeps : sleeps[n].after = 1 /\ sleeps[n].secs = extra_delay
    /\ finished[2].raised
    /\ \A n \in DOMAIN sleeps : sleeps[n].after # 2
    /\ ~finished[3].raised

\* the number of fixed inter-task delays slept after task idx
DelaysAfter(idx) ==
    Cardinality({n \in DOMAIN sleeps :
                    sleeps[n].after = idx /\ sleeps[n].secs = delay_between_chunks})

\* C13: delay_between_chunks is slept exactly once after each task whose
\* execution returned and that is not the last task of the list, and nowhere
\* else: never after the last task, never after a task whose execution raised,
\* never for a task the loop has not finished with.
C13_DelayAfterEachSuccess ==
    \A idx \in 1..Len(custom_tasks) :
        DelaysAfter(idx) =
            IF idx < i /\ ~finished[idx].raised /\ idx < Len(custom_tasks)
            THEN 1 ELSE 0

\* C15: the ExecutionRecord of a task is a failure record exactly when
\* execute_sync raised for it; a task whose execute_sync returned is recorded
\* as a success holding the returned result, whatever its fields are.
C15_FailureIffRaised ==
    \A n \in DOMAIN TaskEntries(results) :
        LET rec == TaskEntries(results)[n].rec
        IN  /\ n \in DOMAIN finished
            /\ ("error" \in rec.keys) <=> finished[n].raised
            /\ ~finished[n].raised =>
                  "result" \in rec.keys /\ rec.result = ResultPayload

-----------------------------------------------------------------------------
(* Properties of create_project_guide and of the report *)

\* a task with only name and description populated
OnlyNameAndDescription(task) ==
    /\ task.kind = "dict"
    /\ task.name.t = "str"
    /\ task.description.t = "str"
    /\ \A k \in TaskFields \ {"name", "description"} : task[k].t = "absent"

\* the positions of the lines of s that start with token tok
LinesStarting(s, tok) == {n \in DOMAIN s : s[n] # <<>> /\ s[n][1] = tok}

\* C9: in the rendered guide a task with only name and description populated
\* has the section: its name, its description, "No output specified", "No
\* criteria specified", "None specified", "Unknown", in that order; and the
\* guide has exactly one section per task, the n-th one titled "Task n".
C9_GuideDefaults ==
    project_guide # NoGuide =>
        /\ Cardinality(LinesStarting(project_guide, "### Task")) = Len(custom_tasks)
        /\ \A n \in DOMAIN custom_tasks :
              LET at == 10 + 7 * (n - 1)
                  task == custom_tasks[n]
              IN  /\ IsPrefix(<<"### Task">> \o DecStr(n) \o <<":">>, project_guide[at + 1])
                  /\ OnlyNameAndDescription(task) =>
                        SubSeq(project_guide, at + 1, at + 7) =
                            << <<"### Task">> \o DecStr(n) \o <<":">> \o task.name.v,
                               <<"**Description:**">> \o task.description.v,
                               <<"**Expected Output:**", "No output specified">>,
                               <<"**Success Criteria:**", "No criteria specified">>,
                               <<"**Dependencies:**", "None specified">>,
                               <<"**Complexity:**", "Unknown">>,
                               <<"---">> >>

C9_Witness ==
    /\ project_guide # NoGuide
    /\ Len(custom_tasks) = 3
    /\ custom_tasks[2] = TaskMin
    /\ custom_tasks[1] = TaskFull

\* the position of the entry of d stored under key (0 when there is none)
KeyPos(d, key) == IF HasKey(d, key) THEN CHOOSE n \in DOMAIN d : d[n].key = key ELSE 0

\* the position of the first line of s equal to line (0 when there is none)
FirstLine(s, line) ==
    IF \E n \in DOMAIN s : s[n] = line
    THEN CHOOSE n \in DOMAIN s : s[n] = line /\ \A m \in 1..(n - 1) : s[m] # line
    ELSE 0

\* C10: the returned report has a 'combined' entry iff some ExecutionRecord is
\* a success; when present, the combined text holds the analysis, then one
\* "###" block per ExecutionRecord (failures included) in task order with its
\* status and its error or result, then the guide.
C10_CombinedIffSuccess ==
    pc = "done" =>
        LET recs == TaskEntries(results)
            txt  == results[KeyPos(results, CombinedKey)].text
            pa   == FirstLine(txt, <<"## PROJECT ANALYSIS">>)
            pt   == FirstLine(txt, <<"## TASK EXECUTION RESULTS">>)
            pg   == FirstLine(txt, <<"## IMPLEMENTATION GUIDE">>)
            hs   == {n \in LinesStarting(txt, "###") : pt < n /\ n < pg}
            \* the position in txt of the n-th "###" line
            hpos(n) == CHOOSE h \in hs : Cardinality({g \in hs : g < h}) = n - 1
        IN  /\ HasKey(results, CombinedKey)
                <=> (\E n \in DOMAIN recs : "error" \notin recs[n].rec.keys)
            /\ HasKey(results, CombinedKey) =>
                  /\ 0 < pa /\ pa < pt /\ pt < pg
                  /\ txt[pa + 1] = AnalysisText
                  /\ SubSeq(txt, pg + 1, Len(txt)) = project_guide
                  /\ Cardinality(hs) = Len(recs)
                  /\ Len(recs) = Len(custom_tasks)
                  /\ \A n \in DOMAIN recs :
                        /\ txt[hpos(n)] =
                              <<"###">> \o Title(Replace(recs[n].key, "_", " "))
                        /\ IF "error" \in recs[n].rec.keys
                           THEN /\ txt[hpos(n) + 1] = <<"**Status:** Failed">>
                                /\ txt[hpos(n) + 2] = <<"**Error:**">> \o recs[n].rec.error.v
                           ELSE /\ txt[hpos(n) + 1] = <<"**Status:** Success">>
                                /\ txt[hpos(n) + 3] = recs[n].rec.result.v

C10_Witness ==
    /\ pc = "done"
    /\ HasKey(results, CombinedKey)
    /\ Len(custom_tasks) = 3
    /\ "error" \in results[1].rec.keys
    /\ "error" \notin results[2].rec.keys
    /\ "error" \in results[3].rec.keys

-----------------------------------------------------------------------------
(* Raw model text: a sequence of tokens.  "[" "]" "," are the JSON           *)
(* punctuation, "T1" "T2" stand for a JSON object each, "N5" for a JSON      *)
(* number, "sp" for a blank, "\n" for a line break, "TN" "D" "EO" "SC" for   *)
(* the markers "TASK NAME:" "DESCRIPTION:" "EXPECTED OUTPUT:" "SUCCESS       *)
(* CRITERIA:", anything else for a word.                                     *)

Whitespace == {"sp", "\n"}

ObjectTokens == {"T1", "T2"}

\* json decoding of an object token
JsonObject(tok) == IF tok = "T1" THEN TaskFull ELSE TaskMin

\* a nested list as a list element: not a dict
ListElement ==
    [kind |-> "list", name |-> Absent, description |-> Absent,
     expected_output |-> Absent, success_criteria |-> Absent,
     dependencies |-> Absent, estimated_complexity |-> Absent]

\* the lines the model's answer is made of
LineMenu ==
    { <<"TN", "sp", "a">>,
      <<"w", "TN", "sp", "b", "sp">>,
      <<"TN", "a", "sp", "D", "x">>,
      <<"D", "sp", "x">>,
      <<"EO", "y">>,
      <<"sp", "SC", "z">>,
      <<"w">>,
      <<"[", "T1", ",", "sp", "T2", "]">>,
      <<"[", "T2", "]">>,
      <<"[", "]">>,
      <<"w", "[", "N5", "]">>,
      <<"[", "T1", ",">>,
      <<"T2", "]">> }

RECURSIVE JoinLines(_)
\* "\n".join(lines)
JoinLines(ls) ==
    IF ls = <<>> THEN <<>>
    ELSE IF Len(ls) = 1 THEN ls[1]
    ELSE ls[1] \o <<"\n">> \o JoinLines(Tail(ls))

RawTexts == {JoinLines(ls) : ls \in SeqsUpTo(LineMenu, MaxLines)}

-----------------------------------------------------------------------------
(* re.search(r'\[.*\]', task_data, re.DOTALL) *)

NoMatch == [found |-> FALSE, group |-> <<>>]

\* leftmost match of the greedy pattern with DOTALL: from the first "[" that
\* has a "]" after it to the last "]" of the text
RegexSearch(text) ==
    IF \E p, q \in DOMAIN text : p < q /\ text[p] = "[" /\ text[q] = "]"
    THEN LET p == CHOOSE a \in DOMAIN text :
                     /\ text[a] = "["
                     /\ \A b \in 1..(a - 1) : text[b] # "["
             q == CHOOSE a \in DOMAIN text :
                     /\ text[a] = "]"
                     /\ \A b \in (a + 1)..Len(text) : text[b] # "]"
         IN  [found |-> TRUE, group |-> SubSeq(text, p, q)]
    ELSE NoMatch

-----------------------------------------------------------------------------
(* json.loads on a token sequence *)

RECURSIVE SkipWs(_, _)
\* the first position at or after p that holds no whitespace
SkipWs(s, p) == IF p <= Len(s) /\ s[p] \in Whitespace THEN SkipWs(s, p + 1) ELSE p

JsonFail == [ok |-> FALSE, val |-> <<>>, next |-> 0]

RECURSIVE JsonElements(_, _, _)
\* the elements of an array after its "[" (or after a ","): s from position p,
\* acc the elements decoded so far; next is the position after the closing "]"
JsonElements(s, p, acc) ==
    LET a == SkipWs(s, p)
    IN  IF a > Len(s) THEN JsonFail
        ELSE LET el == IF s[a] \in ObjectTokens
                          THEN [ok |-> TRUE, val |-> JsonObject(s[a]), next |-> a + 1]
                       ELSE IF s[a] = "N5"
                          THEN [ok |-> TRUE, val |-> NonDict, next |-> a + 1]
                       ELSE IF s[a] = "["
                          THEN LET b == SkipWs(s, a + 1)
                                   inner == IF b <= Len(s) /\ s[b] = "]"
                                            THEN [ok |-> TRUE, val |-> <<>>, next |-> b + 1]
                                            ELSE JsonElements(s, a + 1, <<>>)
                               IN  [ok |-> inner.ok, val |-> ListElement,
                                    next |-> inner.next]
                       ELSE JsonFail
             IN  IF ~el.ok THEN JsonFail
                 ELSE LET c == SkipWs(s, el.next)
                      IN  IF c > Len(s) THEN JsonFail
                          ELSE IF s[c] = "]"
                             THEN [ok |-> TRUE, val |-> Append(acc, el.val), next |-> c + 1]
                          ELSE IF s[c] = ","
                             THEN JsonElements(s, c + 1, Append(acc, el.val))
                          ELSE JsonFail

\* json.loads(s) for s starting with "[": ok with the decoded list, or not ok
\* (JSONDecodeError): one array, nothing but whitespace after it
JsonLoads(s) ==
    LET b == SkipWs(s, 2)
        arr == IF b <= Len(s) /\ s[b] = "]"
               THEN [ok |-> TRUE, val |-> <<>>, next |-> b + 1]
               ELSE JsonElements(s, 2, <<>>)
    IN  IF arr.ok /\ SkipWs(s, arr.next) > Len(s) THEN arr ELSE JsonFail

-----------------------------------------------------------------------------
(* TaskDesignerAgent._parse_text_tasks and _generate_fallback_tasks *)

RECURSIVE SplitLines(_)
\* text.split('\n')
SplitLines(text) ==
    IF \E p \in DOMAIN text : text[p] = "\n"
    THEN LET p == CHOOSE a \in DOMAIN text :
                     text[a] = "\n" /\ \A b \in 1..(a - 1) : text[b] # "\n"
         IN  <<SubSeq(text, 1, p - 1)>> \o SplitLines(SubSeq(text, p + 1, Len(text)))
    ELSE <<text>>

RECURSIVE Strip(_)
\* s.strip()
Strip(s) ==
    IF s = <<>> THEN s
    ELSE IF s[1] \in Whitespace THEN Strip(Tail(s))
    ELSE IF s[Len(s)] \in Whitespace THEN Strip(SubSeq(s, 1, Len(s) - 1))
    ELSE s

\* marker in line
Contains(line, marker) == \E p \in DOMAIN line : line[p] = marker

\* line.split(marker)[1].strip() for a line that contains the marker: the text
\* between its first occurrence and the next one (or the end of the line)
AfterMarker(line, marker) ==
    LET p == CHOOSE a \in DOMAIN line :
                 line[a] = marker /\ \A b \in 1..(a - 1) : line[b] # marker
        rest == SubSeq(line, p + 1, Len(line))
        q == IF Contains(rest, marker)
             THEN CHOOSE a \in DOMAIN rest :
                      rest[a] = marker /\ \A b \in 1..(a - 1) : rest[b] # marker
             ELSE Len(rest) + 1
    IN  Strip(SubSeq(rest, 1, q - 1))

ParseState(tasks, current_task) == [tasks |-> tasks, current_task |-> current_task]

\* the body of `for line in lines`
ParseLine(st, raw_line) ==
    LET line == Strip(raw_line)
        cur == st.current_task
    IN  IF Contains(line, "TN")
        THEN ParseState(IF Truthy(cur) THEN Append(st.tasks, cur) ELSE st.tasks,
                        [EmptyDict EXCEPT !.name = Str(AfterMarker(line, "TN"))])
        ELSE IF Contains(line, "D")
        THEN ParseState(st.tasks, [cur EXCEPT !.description = Str(AfterMarker(line, "D"))])
        ELSE IF Contains(line, "EO")
        THEN ParseState(st.tasks,
                        [cur EXCEPT !.expected_output = Str(AfterMarker(line, "EO"))])
        ELSE IF Contains(line, "SC")
        THEN ParseState(st.tasks,
                        [cur EXCEPT !.success_criteria = Str(AfterMarker(line, "SC"))])
        ELSE st

RECURSIVE ParseLines(_, _)
\* the loop over the lines, from the state st
ParseLines(st, lines) ==
    IF lines = <<>> THEN st ELSE ParseLines(ParseLine(st, Head(lines)), Tail(lines))

\* the tasks list of _parse_text_tasks before its return statement
HeuristicTasks(text) ==
    LET st == ParseLines(ParseState(<<>>, EmptyDict), SplitLines(text))
    IN  IF Truthy(st.current_task) THEN Append(st.tasks, st.current_task) ELSE st.tasks

\* _generate_fallback_tasks
GenerateFallbackTasks ==
    << Dict(Str(<<"Project Setup">>),
            Str(<<"Set up basic project structure and files">>),
            Str(<<"Working project foundation">>),
            Str(<<"Files can be opened and basic structure exists">>), Absent, Absent),
       Dict(Str(<<"Core Implementation">>),
            Str(<<"Implement main functionality">>),
            Str(<<"Working core features">>),
            Str(<<"Main features function as expected">>), Absent, Absent),
       Dict(Str(<<"Testing and Polish">>),
            Str(<<"Test functionality and add finishing touches">>),
            Str(<<"Polished, working application">>),
            Str(<<"Application works without errors">>), Absent, Absent) >>

\* _parse_text_tasks(text)
ParseTextTasks(text) ==
    IF HeuristicTasks(text) # <<>> THEN HeuristicTasks(text) ELSE GenerateFallbackTasks

-----------------------------------------------------------------------------
(* TaskDesignerAgent.generate_custom_tasks, from the model's answer on *)

RunnerIdle ==
    /\ pc = "idle"
    /\ custom_tasks = <<>>
    /\ project_guide = NoGuide
    /\ i = 1
    /\ estimated_tokens = 0
    /\ start_time = 0
    /\ error_msg = <<>>
    /\ results = <<>>
    /\ now = 0
    /\ submitted = <<>>
    /\ finished = <<>>
    /\ sleeps = <<>>

InitExtract ==
    /\ x_pc = "search"
    /\ raw_text \in RawTexts
    /\ json_match = NoMatch
    /\ tiers = <<>>
    /\ x_result = <<>>
    /\ RunnerIdle
    /\ CallsIdle

Catches_OnlyTypeError(exc) == exc = "TypeError"

\* `except Exception`: every exception class the try body raises is caught
Catches(exc) == exc \in {"JSONDecodeError", "TypeError", "AttributeError"}

\* re.search on the answer; without a match the else branch parses the text
Search ==
    /\ x_pc = "search"
    /\ json_match' = RegexSearch(raw_text)
    /\ IF json_match'.found
       THEN x_pc' = "loads" /\ tiers' = Append(tiers, "json")
       ELSE x_pc' = "text" /\ tiers' = Append(tiers, "text")
    /\ UNCHANGED <<raw_text, x_result>>
    /\ UNCHANGED runner_vars
    /\ UNCHANGED call_vars

\* json.loads(json_match.group()) returns the list, which is returned as is
LoadsReturns ==
    /\ x_pc = "loads"
    /\ JsonLoads(json_match.group).ok
    /\ x_result' = JsonLoads(json_match.group).val
    /\ x_pc' = "returned"
    /\ UNCHANGED <<raw_text, json_match, tiers>>
    /\ UNCHANGED runner_vars
    /\ UNCHANGED call_vars

\* json.loads raises JSONDecodeError: the except clause takes over when it
\* catches the exception, otherwise the exception reaches the caller
LoadsRaises ==
    /\ x_pc = "loads"
    /\ ~JsonLoads(json_match.group).ok
    /\ IF Catches("JSONDecodeError")
       THEN x_pc' = "text" /\ tiers' = Append(tiers, "text")
       ELSE x_pc' = "raised" /\ UNCHANGED tiers
    /\ UNCHANGED <<raw_text, json_match, x_result>>
    /\ UNCHANGED runner_vars
    /\ UNCHANGED call_vars

\* _parse_text_tasks: the line heuristic found records
TextReturns ==
    /\ x_pc = "text"
    /\ HeuristicTasks(raw_text) # <<>>
    /\ x_result' = ParseTextTasks(raw_text)
    /\ x_pc' = "returned"
    /\ UNCHANGED <<raw_text, json_match, tiers>>
    /\ UNCHANGED runner_vars
    /\ UNCHANGED call_vars

\* _parse_text_tasks: the line heuristic found nothing, the template is returned
TextFallsBack ==
    /\ x_pc = "text"
    /\ HeuristicTasks(raw_text) = <<>>
    /\ tiers' = Append(tiers, "template")
    /\ x_result' = ParseTextTasks(raw_text)
    /\ x_pc' = "returned"
    /\ UNCHANGED <<raw_text, json_match>>
    /\ UNCHANGED runner_vars
    /\ UNCHANGED call_vars

NextExtract ==
    \/ Search
    \/ LoadsReturns
    \/ LoadsRaises
    \/ TextReturns
    \/ TextFallsBack

SpecExtract == InitExtract /\ [][NextExtract]_vars

-----------------------------------------------------------------------------
(* Repeated calls of generate_custom_tasks on one TaskDesignerAgent, with    *)
(* _parse_text_tasks taken statement by statement                            *)

\* the lines of the answers given to the repeated calls
CallMenu ==
    { <<"TN", "sp", "a">>, <<"D", "sp", "x">>, <<"w">>, <<"[", "T2", "]">> }

CallTexts == {JoinLines(ls) : ls \in SeqsUpTo(CallMenu, MaxCallLines)}

InitCalls ==
    /\ x_pc = "search"
    /\ raw_text \in CallTexts
    /\ json_match = NoMatch
    /\ tiers = <<>>
    /\ x_result = <<>>
    /\ RunnerIdle
    /\ CallsIdle

FreshTasks_Shared == p_tasks

\* tasks = []: a new list at every call
FreshTasks == <<>>

\* current_task = {}: a new dict at every call
FreshTask == EmptyDict

\* lines = text.split('\n'); tasks = []; current_task = {}
ParseTextBegin ==
    /\ x_pc = "text"
    /\ p_lines' = SplitLines(raw_text)
    /\ p_tasks' = FreshTasks
    /\ p_current' = FreshTask
    /\ x_pc' = "lines"
    /\ UNCHANGED <<raw_text, json_match, tiers, x_result, ref>>
    /\ UNCHANGED runner_vars

\* one iteration of `for line in lines`
ParseTextLine ==
    /\ x_pc = "lines"
    /\ p_lines # <<>>
    /\ LET st == ParseLine(ParseState(p_tasks, p_current), Head(p_lines))
       IN  /\ p_tasks' = st.tasks
           /\ p_current' = st.current_task
    /\ p_lines' = Tail(p_lines)
    /\ UNCHANGED <<x_pc, raw_text, json_match, tiers, x_result, ref>>
    /\ UNCHANGED runner_vars

\* after the loop: the last record is appended, and tasks or the template
\* is returned
ParseTextEnd ==
    /\ x_pc = "lines"
    /\ p_lines = <<>>
    /\ p_tasks' = IF Truthy(p_current) THEN Append(p_tasks, p_current) ELSE p_tasks
    /\ IF p_tasks' # <<>>
       THEN x_result' = p_tasks' /\ UNCHANGED tiers
       ELSE x_result' = GenerateFallbackTasks /\ tiers' = Append(tiers, "template")
    /\ x_pc' = "returned"
    /\ UNCHANGED <<raw_text, json_match, p_current, p_lines, ref>>
    /\ UNCHANGED runner_vars

\* the caller, having the result of a call, calls generate_custom_tasks again
\* with some answer; it may keep the call just made in mind (ref), and it
\* notes when a call on another text has been made since (ref.others)
CallAgain ==
    /\ x_pc = "returned"
    /\ \/ ref' = [set |-> TRUE, text |-> raw_text, result |-> x_result, others |-> FALSE]
       \/ ref' = [ref EXCEPT !.others = ref.set /\ (@ \/ raw_text # ref.text)]
    /\ \E text \in CallTexts : raw_text' = text
    /\ json_match' = NoMatch
    /\ tiers' = <<>>
    /\ x_result' = <<>>
    /\ x_pc' = "search"
    /\ UNCHANGED <<p_tasks, p_current, p_lines>>
    /\ UNCHANGED runner_vars

NextCalls ==
    \/ Search
    \/ LoadsReturns
    \/ LoadsRaises
    \/ ParseTextBegin
    \/ ParseTextLine
    \/ ParseTextEnd
    \/ CallAgain

SpecCalls == InitCalls /\ [][NextCalls]_vars

-----------------------------------------------------------------------------
(* analyze_and_design_tasks: the extractor's result is the runner's task list *)

\* custom_tasks = designer.generate_custom_tasks(analysis)
Handoff ==
    /\ x_pc = "returned"
    /\ pc = "idle"
    /\ custom_tasks' = x_result
    /\ pc' = "design"
    /\ UNCHANGED <<project_guide, i, estimated_tokens, start_time, error_msg, results,
                   now, submitted, finished, sleeps>>
    /\ UNCHANGED extract_vars
    /\ UNCHANGED call_vars

NextPipeline ==
    \/ NextExtract
    \/ Handoff
    \/ Next

SpecPipeline == InitExtract /\ [][NextPipeline]_vars

-----------------------------------------------------------------------------
(* Properties of the task extractor *)

\* the well-formed bracketed arrays the text holds, as <<first, last>> positions
WellFormedArrays(text) ==
    {pq \in (DOMAIN text) \X (DOMAIN text) :
        /\ pq[1] < pq[2]
        /\ text[pq[1]] = "[" /\ text[pq[2]] = "]"
        /\ JsonLoads(SubSeq(text, pq[1], pq[2])).ok}

\* the text holds no bracketed substring that decodes
NoStructuredData(text) ==
    ~(RegexSearch(text).found /\ JsonLoads(RegexSearch(text).group).ok)

\* the positions of the "TASK NAME:" markers of the text
MarkerPositions(text) == {p \in DOMAIN text : text[p] = "TN"}

\* the lines of the text after the line of the n-th "TASK NAME:" marker and
\* before the line of the next one
MarkerSegment(text, n) ==
    LET lines == SplitLines(text)
        ls == {k \in DOMAIN lines : Contains(lines[k], "TN")}
        at(m) == CHOOSE k \in ls : Cardinality({j \in ls : j < k}) = m - 1
        to == IF n < Cardinality(ls) THEN at(n + 1) - 1 ELSE Len(lines)
    IN  Concat(SubSeq(lines, at(n) + 1, to))

\* C5: when the answer holds one well-formed bracketed array in surrounding
\* text (which may itself hold "[" or "]"), the extractor returns the decoded
\* list of that array.
C5_EmbeddedArrayDecoded ==
    (x_pc = "returned" /\ Cardinality(WellFormedArrays(raw_text)) = 1) =>
        LET pq == CHOOSE a \in WellFormedArrays(raw_text) : TRUE
        IN  x_result = JsonLoads(SubSeq(raw_text, pq[1], pq[2])).val

\* C6: for a text with N >= 1 "TASK NAME:" markers and no structured data
\* the extractor returns N records, the n-th carrying exactly those of
\* description / expected_output / success_criteria whose marker lines stand
\* between the line of the n-th "TASK NAME:" marker and that of the next one.
C6_OneRecordPerMarker ==
    (/\ x_pc = "returned"
     /\ NoStructuredData(raw_text)
     /\ MarkerPositions(raw_text) # {}) =>
        /\ Len(x_result) = Cardinality(MarkerPositions(raw_text))
        /\ \A n \in DOMAIN x_result :
              /\ x_result[n].name.t = "str"
              /\ n <= Cardinality(MarkerPositions(raw_text)) =>
                    /\ x_result[n].description.t = "str"
                          <=> Contains(MarkerSegment(raw_text, n), "D")
                    /\ x_result[n].expected_output.t = "str"
                          <=> Contains(MarkerSegment(raw_text, n), "EO")
                    /\ x_result[n].success_criteria.t = "str"
                          <=> Contains(MarkerSegment(raw_text, n), "SC")

\* C7: for a text with no "TASK NAME:" marker and no structured data the
\* extractor returns the three template records "Project Setup", "Core
\* Implementation", "Testing and Polish", in that order.
C7_TemplateWithoutMarkers ==
    (/\ x_pc = "returned"
     /\ NoStructuredData(raw_text)
     /\ MarkerPositions(raw_text) = {}) =>
        /\ Len(x_result) = 3
        /\ [n \in 1..3 |-> x_result[n].name] =
              << Str(<<"Project Setup">>), Str(<<"Core Implementation">>),
                 Str(<<"Testing and Polish">>) >>

\* C8: the extractor never raises; a bracketed substring that does not decode
\* leads to the line heuristic on the text, a heuristic without records leads
\* to the template, and a tier is entered only after the previous one failed.
C8_NeverRaisesDegrades ==
    /\ x_pc # "raised"
    /\ x_pc = "returned" =>
          LET found == \E p, q \in DOMAIN raw_text :
                          p < q /\ raw_text[p] = "[" /\ raw_text[q] = "]"
              valid == found /\ JsonLoads(json_match.group).ok
              heur  == HeuristicTasks(raw_text)
          IN  /\ json_match.found <=> found
              /\ valid => tiers = <<"json">>
              /\ (found /\ ~valid) =>
                    /\ SubSeq(tiers, 1, 2) = <<"json", "text">>
                    /\ heur # <<>> => x_result = heur
              /\ ~found => tiers[1] = "text"
              /\ (~valid /\ heur = <<>>) =>
                    /\ tiers[Len(tiers)] = "template"
                    /\ x_result = GenerateFallbackTasks
              /\ (~valid /\ heur # <<>>) =>
                    /\ tiers[Len(tiers)] = "text"
                    /\ x_result = heur
              /\ tiers \in {<<"json">>, <<"json", "text">>, <<"json", "text", "template">>,
                            <<"text">>, <<"text", "template">>}

C8_Witness ==
    /\ x_pc = "returned"
    /\ tiers = <<"json", "text", "template">>
    /\ x_result = GenerateFallbackTasks

\* C16: whatever the raw text, the extractor returns a non-empty sequence of
\* task records; a bracketed array that decodes to an empty list or to a list
\* with elements that are not task objects counts as nothing usable and gives
\* the three-task template.
C16_NeverEmptyAlwaysTasks ==
    x_pc = "returned" =>
        /\ x_result # <<>>
        /\ \A n \in DOMAIN x_result : x_result[n].kind = "dict"
        /\ (/\ json_match.found
            /\ JsonLoads(json_match.group).ok
            /\ LET val == JsonLoads(json_match.group).val
               IN  val = <<>> \/ \E n \in DOMAIN val : val[n].kind # "dict") =>
              x_result = GenerateFallbackTasks

\* the fields of a task_config other than the description that the prompt uses,
\* with the placeholder the prompt shows for a missing one
Placeholder ==
    [name |-> <<"Development Task">>,
     expected_output |-> <<"Working implementation">>,
     success_criteria |-> <<"Code functions without errors">>]

\* C14: every task submitted from a task list the extractor produced has a
\* description that is a non-empty string; a missing name, expected_output or
\* success_criteria shows as its placeholder in the prompt, and every task
\* the loop has gone past was submitted.
C14_SubmittedHaveDescription ==
    /\ \A n \in DOMAIN submitted :
          LET task == submitted[n].task
          IN  /\ task.description.t = "str"
              /\ task.description.v # <<>>
              /\ \A f \in DOMAIN Placeholder :
                    task[f].t = "absent" => submitted[n].prompt[f] = Placeholder[f]
    /\ \A idx \in 1..Len(custom_tasks) : idx < i => SubmissionsOf(idx) = 1

\* C12: the result of the extractor depends on the text of the call only: a
\* call on the text of an earlier call returns what that call returned,
\* whatever calls on other texts were made in between.
C12_SameTextSameResult ==
    (x_pc = "returned" /\ ref.set /\ ref.text = raw_text) => x_result = ref.result

C12_Witness ==
    /\ x_pc = "returned"
    /\ ref.set
    /\ ref.others
    /\ ref.text = raw_text
    /\ tiers = <<"text", "template">>
    /\ p_tasks = <<>>
    /\ x_result = ref.result

====
